---- MODULE Spec2Model ----
(***************************************************************************)
(* AutoConfigCFA (src/main.py): one row of a survey spreadsheet is turned  *)
(* into mutations of a baseline XML configuration.  Spec follows the       *)
(* script from get_excel_columns to the write of the output file;          *)
(* SpecOrder is the same script with RULES in every order; SpecUnit calls  *)
(* single predicates, options, rules and node updates on documents, as a   *)
(* unit test of main.py would.                                             *)
(*                                                                         *)
(* A Python str is a tuple of one-character strings, so that lower(), the  *)
(* `in` containment test, str() and the parsing of ipaddress are computed  *)
(* and not assumed.                                                        *)
(***************************************************************************)
EXTENDS Integers, Sequences, FiniteSets, TLC

\* ------------------------------------------------------------------ str

\* Python's None where a str could stand (a cell value, a node's text): a
\* value that no tuple of one-character strings equals.
None == <<"None-object">>

UpperChars == <<"A","B","C","D","E","F","G","H","I","J","K","L","M","N","O","P","Q","R","S","T","U","V","W","X","Y","Z","Í","Ó">>
LowerChars == <<"a","b","c","d","e","f","g","h","i","j","k","l","m","n","o","p","q","r","s","t","u","v","w","x","y","z","í","ó">>

\* str.lower() on one character
LowerChar(c) ==
    IF \E i \in 1..Len(UpperChars) : UpperChars[i] = c
    THEN LowerChars[CHOOSE i \in 1..Len(UpperChars) : UpperChars[i] = c]
    ELSE c

\* str.lower()
lower(s) == [i \in 1..Len(s) |-> LowerChar(s[i])]

\* `sub in s` on two str
StrIn(sub, s) ==
    \E i \in 0..(Len(s) - Len(sub)) : SubSeq(s, i + 1, i + Len(sub)) = sub

Digits == <<"0","1","2","3","4","5","6","7","8","9">>

\* str.isascii() and str.isdigit()
IsDigits(s) ==
    /\ Len(s) > 0
    /\ \A i \in 1..Len(s) : \E d \in 1..10 : Digits[d] = s[i]

DigitValue(c) == (CHOOSE d \in 1..10 : Digits[d] = c) - 1

\* The largest number ipaddress compares a parsed int with (an octet with 255,
\* a prefix length with 32); int() of a longer digit string is only known to
\* be above it.
IntCap == 1000

RECURSIVE IntOfDigits(_, _)
\* int(s) of a str of decimal digits, never above IntCap
IntOfDigits(s, acc) ==
    IF s = <<>> THEN acc
    ELSE LET n == acc * 10 + DigitValue(Head(s))
         IN IntOfDigits(Tail(s), IF n > IntCap THEN IntCap ELSE n)

RECURSIVE DigitsOfNat(_)
DigitsOfNat(n) ==
    IF n < 10 THEN <<Digits[n + 1]>>
    ELSE Append(DigitsOfNat(n \div 10), Digits[(n % 10) + 1])

\* str(n) of an int
StrOfInt(n) == IF n < 0 THEN <<"-">> \o DigitsOfNat(0 - n) ELSE DigitsOfNat(n)

RECURSIVE SplitFrom(_, _, _)
SplitFrom(s, sep, cur) ==
    IF s = <<>> THEN <<cur>>
    ELSE IF Head(s) = sep THEN <<cur>> \o SplitFrom(Tail(s), sep, <<>>)
    ELSE SplitFrom(Tail(s), sep, Append(cur, Head(s)))

\* str.split(sep) with a one-character separator
Split(s, sep) == SplitFrom(s, sep, <<>>)

\* ------------------------------------------------------------ ipaddress

\* An address is its four octets; a parse that raises is Invalid.
Invalid == <<>>

Pow2(n) == CASE n = 0 -> 1 [] n = 1 -> 2 [] n = 2 -> 4 [] n = 3 -> 8 [] n = 4 -> 16
             [] n = 5 -> 32 [] n = 6 -> 64 [] n = 7 -> 128 [] OTHER -> 256

\* IPv4Address._parse_octet; -1 when it raises ValueError (a leading zero is
\* an error since CPython 3.9.5)
ParseOctet(o) ==
    IF ~IsDigits(o) THEN -1
    ELSE IF Len(o) > 3 THEN -1
    ELSE IF o # <<"0">> /\ o[1] = "0" THEN -1
    ELSE IF IntOfDigits(o, 0) > 255 THEN -1
    ELSE IntOfDigits(o, 0)

\* IPv4Address._ip_int_from_string
IpFromString(s) ==
    IF s = <<>> THEN Invalid
    ELSE LET octets == Split(s, ".")
         IN IF Len(octets) # 4 THEN Invalid
            ELSE IF \E i \in 1..4 : ParseOctet(octets[i]) = -1 THEN Invalid
            ELSE [i \in 1..4 |-> ParseOctet(octets[i])]

\* The number of bits of octet i (1..4) a prefix of length p covers
OctetBits(p, i) ==
    LET b == p - 8 * (i - 1) IN IF b < 0 THEN 0 ELSE IF b > 8 THEN 8 ELSE b

\* The netmask of prefix length p
MaskOf(p) == [i \in 1..4 |-> 256 - Pow2(8 - OctetBits(p, i))]

\* addr & netmask
AndMask(addr, p) ==
    [i \in 1..4 |-> addr[i] - (addr[i] % Pow2(8 - OctetBits(p, i)))]

\* _BaseV4._prefix_from_prefix_string; -1 when it raises NetmaskValueError
PrefixFromPrefixString(s) ==
    IF ~IsDigits(s) THEN -1
    ELSE IF IntOfDigits(s, 0) > 32 THEN -1
    ELSE IntOfDigits(s, 0)

\* _BaseV4._prefix_from_ip_int; -1 when it raises ValueError
PrefixFromIpInt(ip) ==
    IF \E p \in 0..32 : MaskOf(p) = ip
    THEN CHOOSE p \in 0..32 : MaskOf(p) = ip
    ELSE -1

\* _BaseV4._prefix_from_ip_string: a netmask, else a hostmask
PrefixFromIpString(s) ==
    LET ip == IpFromString(s)
    IN IF ip = Invalid THEN -1
       ELSE IF PrefixFromIpInt(ip) # -1 THEN PrefixFromIpInt(ip)
       ELSE PrefixFromIpInt([i \in 1..4 |-> 255 - ip[i]])

\* IPv4Network._make_netmask of a str
MakeNetmask(s) ==
    IF PrefixFromPrefixString(s) # -1 THEN PrefixFromPrefixString(s)
    ELSE PrefixFromIpString(s)

\* IPv4Network(value, strict=False): [ok, addr (the network address), prefix]
BadNetwork == [ok |-> FALSE, addr |-> Invalid, prefix |-> 0]

IPv4Network(value) ==
    LET parts == Split(value, "/")
    IN IF Len(parts) > 2 THEN BadNetwork
       ELSE LET ip == IpFromString(parts[1])
                p  == IF Len(parts) = 2 THEN MakeNetmask(parts[2]) ELSE 32
            IN IF ip = Invalid \/ p = -1 THEN BadNetwork
               ELSE [ok |-> TRUE, addr |-> AndMask(ip, p), prefix |-> p]

\* network.broadcast_address
Broadcast(net) ==
    [i \in 1..4 |-> net.addr[i] + Pow2(8 - OctetBits(net.prefix, i)) - 1]

\* `addr in net`
AddrIn(addr, net) == AndMask(addr, net.prefix) = net.addr

\* _BaseNetwork.overlaps
overlaps(a, b) ==
    \/ AddrIn(a.addr, b)
    \/ AddrIn(Broadcast(a), b)
    \/ AddrIn(b.addr, a)
    \/ AddrIn(Broadcast(b), a)

\* ------------------------------------------------------------- Document

\* The part of the ElementTree document the script's locators reach.  Every
\* field lists nodes in document order:
\*   rules[i]      the i-th filter/rule element: the texts of its tracker
\*                 children and the texts of its type children
\*   dest          the texts of installedpackages/squidguarddefault/config/dest
\*   items[i]      the i-th installedpackages/pfblockerngblacklist/item: the
\*                 texts of its selected children
\*   admin_email   the texts of installedpackages/squid/config/admin_email
\*   ipaddr        the texts of interfaces/lan/ipaddr
\* A node is named by the field it is in and its place there.
Node(k, i, j) == [k |-> k, i |-> i, j |-> j]

\* Element.find's None
NoNode == Node("none", 0, 0)

RECURSIVE Flatten(_)
Flatten(ss) == IF ss = <<>> THEN <<>> ELSE Head(ss) \o Flatten(Tail(ss))

XPathDest == "installedpackages/squidguarddefault/config/dest"
XPathSelected == "installedpackages/pfblockerngblacklist/item/selected"
XPathAdminEmail == "installedpackages/squid/config/admin_email"
XPathIpaddr == "interfaces/lan/ipaddr"
XPathRuleType == "filter/rule/tracker[.=tracker]..type"

\* A locator: a plain path, or update_rule_type's f-string with its tracker
Path(p) == [path |-> p, tracker |-> ""]
RuleTypeOf(tracker) == [path |-> XPathRuleType, tracker |-> tracker]

\* Element.findall: the nodes a locator resolves to, in document order.  For
\* the tracker locator: every rule with a tracker child of that text (once),
\* then all its type children.
findall(xml, xpath) ==
    CASE xpath.path = XPathRuleType ->
           Flatten([i \in 1..Len(xml.rules) |->
               IF \E t \in 1..Len(xml.rules[i].trackers) :
                      xml.rules[i].trackers[t] = xpath.tracker
               THEN [j \in 1..Len(xml.rules[i].types) |-> Node("type", i, j)]
               ELSE <<>>])
      [] xpath.path = XPathDest ->
           [i \in 1..Len(xml.dest) |-> Node("dest", i, 0)]
      [] xpath.path = XPathSelected ->
           Flatten([i \in 1..Len(xml.items) |->
               [j \in 1..Len(xml.items[i]) |-> Node("selected", i, j)]])
      [] xpath.path = XPathAdminEmail ->
           [i \in 1..Len(xml.admin_email) |-> Node("admin_email", i, 0)]
      [] xpath.path = XPathIpaddr ->
           [i \in 1..Len(xml.ipaddr) |-> Node("ipaddr", i, 0)]
      [] OTHER -> <<>>

\* find, were it to return the last match
find_last(xml, xpath) ==
    IF findall(xml, xpath) = <<>> THEN NoNode
    ELSE findall(xml, xpath)[Len(findall(xml, xpath))]

\* Element.find: the first match, or None
find(xml, xpath) ==
    IF findall(xml, xpath) = <<>> THEN NoNode ELSE findall(xml, xpath)[1]

\* node.text
Text(xml, node) ==
    CASE node.k = "type" -> xml.rules[node.i].types[node.j]
      [] node.k = "dest" -> xml.dest[node.i]
      [] node.k = "selected" -> xml.items[node.i][node.j]
      [] node.k = "admin_email" -> xml.admin_email[node.i]
      [] node.k = "ipaddr" -> xml.ipaddr[node.i]

\* node.text = text
SetText(xml, node, text) ==
    CASE node.k = "type" -> [xml EXCEPT !.rules[node.i].types[node.j] = text]
      [] node.k = "dest" -> [xml EXCEPT !.dest[node.i] = text]
      [] node.k = "selected" -> [xml EXCEPT !.items[node.i][node.j] = text]
      [] node.k = "admin_email" -> [xml EXCEPT !.admin_email[node.i] = text]
      [] node.k = "ipaddr" -> [xml EXCEPT !.ipaddr[node.i] = text]

\* A call's outcome: the document as the call left it, and whether it raised.
Returned(xml) == [xml |-> xml, raised |-> FALSE]
Raised(xml) == [xml |-> xml, raised |-> TRUE]

\* update_node_value, were it to add to the text (node.text += value)
update_node_value_append(xml, xpath, value) ==
    LET node == find(xml, xpath)
    IN IF node = NoNode THEN Raised(xml)
       ELSE Returned(SetText(xml, node,
                IF Text(xml, node) = None THEN value ELSE Text(xml, node) \o value))

update_node_value(xml, xpath, value) ==
    LET node == find(xml, xpath)
    IN IF node = NoNode THEN Raised(xml)
       ELSE Returned(SetText(xml, node, value))

update_rule_type(xml, tracker, new_type) ==
    update_node_value(xml, RuleTypeOf(tracker), new_type)

\* Two statements in a row: the second runs unless the first raised
AndThenRuleType(r, tracker, new_type) ==
    IF r.raised THEN r ELSE update_rule_type(r.xml, tracker, new_type)

\* ---------------------------------------------------------------- rules

Pass == <<"p","a","s","s">>
Block == <<"b","l","o","c","k">>
All == <<"a","l","l">>
LanAddress == <<"1","0",".","0",".","0",".","1">>

\* A predicate's outcome: what it returned, or that it raised
Answer(b) == [ret |-> b, raised |-> FALSE]
PredicateRaised == [ret |-> FALSE, raised |-> TRUE]

ProtocolsRule_OptionFTP_can_apply(value) == Answer(StrIn(<<"f","t","p">>, lower(value)))

ProtocolsRule_OptionFTP_apply(xml, value) ==
    AndThenRuleType(update_rule_type(xml, "1629481790", Pass), "1629485503", Pass)

ProtocolsRule_OptionSMB_can_apply(value) == Answer(StrIn(<<"s","m","b">>, lower(value)))

\* OptionSMB.apply without its second statement
ProtocolsRule_OptionSMB_apply_wan_only(xml, value) ==
    update_rule_type(xml, "1629485258", Pass)

ProtocolsRule_OptionSMB_apply(xml, value) ==
    AndThenRuleType(update_rule_type(xml, "1629485258", Pass), "1629485518", Pass)

ProtocolsRule_OptionSSH_can_apply(value) == Answer(StrIn(<<"s","s","h">>, lower(value)))

ProtocolsRule_OptionSSH_apply(xml, value) ==
    AndThenRuleType(update_rule_type(xml, "1629479843", Pass), "1629479704", Pass)

ProtocolsRule_can_apply(title) ==
    StrIn(<<"e","s","t","o","s"," ","p","r","o","t","o","c","o","l","o","s"," ","u","t","i","l","i","z","a">>, lower(title))

TeleworkingRule_OptionNo_can_apply(value) == Answer(StrIn(<<"n","o">>, lower(value)))

\* OptionNo.apply with the tracker of FTP's WAN rule pasted in
TeleworkingRule_OptionNo_apply_ftp_tracker(xml, value) ==
    update_rule_type(xml, "1629481790", Block)

TeleworkingRule_OptionNo_apply(xml, value) ==
    update_rule_type(xml, "1614115961", Block)

TeleworkingRule_can_apply(title) ==
    StrIn(<<"r","e","a","l","i","z","a","r"," ","t","e","l","e","t","r","a","b","a","j","o">>, lower(title))

BlockBadTrafficRule_OptionNo_can_apply(value) ==
    Answer(StrIn(<<"n","o"," ","q","u","i","e","r","o"," ","b","l","o","q","u","e","a","r">>, lower(value)))

RECURSIVE ClearText(_, _)
\* for node in nodes: node.text = None
ClearText(xml, nodes) ==
    IF nodes = <<>> THEN xml
    ELSE ClearText(SetText(xml, Head(nodes), None), Tail(nodes))

\* OptionNo.apply, were it to clear the first selected node only (find for findall)
BlockBadTrafficRule_OptionNo_apply_first_only(xml, value) ==
    LET r == update_node_value(xml, Path(XPathDest), All)
        node == find(xml, Path(XPathSelected))
    IN IF r.raised THEN r
       ELSE IF node = NoNode THEN r
       ELSE Returned(SetText(r.xml, node, None))

BlockBadTrafficRule_OptionNo_apply(xml, value) ==
    LET r == update_node_value(xml, Path(XPathDest), All)
    IN IF r.raised THEN r
       ELSE Returned(ClearText(r.xml, findall(r.xml, Path(XPathSelected))))

BlockBadTrafficRule_can_apply(title) ==
    StrIn(<<"s","i","t","i","o","s"," ","o","c","i","o","s","o","s">>, lower(title))

AdminEmailRule_Option_can_apply(value) == Answer(Len(value) > 0)

AdminEmailRule_Option_apply(xml, value) ==
    update_node_value(xml, Path(XPathAdminEmail), value)

AdminEmailRule_can_apply(title) ==
    StrIn(<<"c","o","r","r","e","o"," ","e","l","e","c","t","r","ó","n","i","c","o">>, lower(title))

\* IPv4Network('192.168.100.1/24', strict=False)
ReferenceNetwork ==
    IPv4Network(<<"1","9","2",".","1","6","8",".","1","0","0",".","1","/","2","4">>)

\* can_apply, were it to catch ValueError and return False
NetworkRule_Option_can_apply_fail_open(value) ==
    LET net == IPv4Network(value)
    IN IF ~net.ok THEN Answer(FALSE)
       ELSE Answer(overlaps(ReferenceNetwork, net))

NetworkRule_Option_can_apply(value) ==
    LET net == IPv4Network(value)
    IN IF ~net.ok THEN PredicateRaised
       ELSE Answer(overlaps(ReferenceNetwork, net))

NetworkRule_Option_apply(xml, value) ==
    update_node_value(xml, Path(XPathIpaddr), LanAddress)

NetworkRule_can_apply(title) ==
    StrIn(<<" ","r","u","t","e","r"," ","d","e"," ","s","a","l","i","d","a"," ","o"," ","g","a","t","e","w","a","y">>, lower(title))

RULES == <<"ProtocolsRule", "TeleworkingRule", "BlockBadTrafficRule",
           "AdminEmailRule", "NetworkRule">>

\* rule.can_apply(title), by the rule's class
Rule_can_apply(rule, title) ==
    CASE rule = "ProtocolsRule" -> ProtocolsRule_can_apply(title)
      [] rule = "TeleworkingRule" -> TeleworkingRule_can_apply(title)
      [] rule = "BlockBadTrafficRule" -> BlockBadTrafficRule_can_apply(title)
      [] rule = "AdminEmailRule" -> AdminEmailRule_can_apply(title)
      [] rule = "NetworkRule" -> NetworkRule_can_apply(title)

\* rule.get_options(): the option classes, in order
get_options(rule) ==
    CASE rule = "ProtocolsRule" -> <<"OptionFTP", "OptionSMB", "OptionSSH">>
      [] rule = "TeleworkingRule" -> <<"OptionNo">>
      [] rule = "BlockBadTrafficRule" -> <<"OptionNo">>
      [] rule = "AdminEmailRule" -> <<"Option">>
      [] rule = "NetworkRule" -> <<"Option">>

\* option.can_apply(value), by the option's class
Option_can_apply(rule, option, value) ==
    CASE rule = "ProtocolsRule" /\ option = "OptionFTP" -> ProtocolsRule_OptionFTP_can_apply(value)
      [] rule = "ProtocolsRule" /\ option = "OptionSMB" -> ProtocolsRule_OptionSMB_can_apply(value)
      [] rule = "ProtocolsRule" /\ option = "OptionSSH" -> ProtocolsRule_OptionSSH_can_apply(value)
      [] rule = "TeleworkingRule" -> TeleworkingRule_OptionNo_can_apply(value)
      [] rule = "BlockBadTrafficRule" -> BlockBadTrafficRule_OptionNo_can_apply(value)
      [] rule = "AdminEmailRule" -> AdminEmailRule_Option_can_apply(value)
      [] rule = "NetworkRule" -> NetworkRule_Option_can_apply(value)

\* option.apply(xml, value), by the option's class
Option_apply(rule, option, xml, value) ==
    CASE rule = "ProtocolsRule" /\ option = "OptionFTP" -> ProtocolsRule_OptionFTP_apply(xml, value)
      [] rule = "ProtocolsRule" /\ option = "OptionSMB" -> ProtocolsRule_OptionSMB_apply(xml, value)
      [] rule = "ProtocolsRule" /\ option = "OptionSSH" -> ProtocolsRule_OptionSSH_apply(xml, value)
      [] rule = "TeleworkingRule" -> TeleworkingRule_OptionNo_apply(xml, value)
      [] rule = "BlockBadTrafficRule" -> BlockBadTrafficRule_OptionNo_apply(xml, value)
      [] rule = "AdminEmailRule" -> AdminEmailRule_Option_apply(xml, value)
      [] rule = "NetworkRule" -> NetworkRule_Option_apply(xml, value)

\* What Rule.apply did, in order: each option.can_apply it evaluated
\* ("can_apply"), each option.apply it called ("apply"), and the exception
\* that ended it ("raise").
Did(ev, option) == [ev |-> ev, option |-> option]

RECURSIVE RuleApplyLoop(_, _, _, _, _)
\* for option in options: if option.can_apply(value): option.apply(xml, value)
RuleApplyLoop(rule, options, xml, value, events) ==
    IF options = <<>> THEN [xml |-> xml, raised |-> FALSE, events |-> events]
    ELSE LET option == Head(options)
             can == Option_can_apply(rule, option, value)
             checked == Append(events, Did("can_apply", option))
         IN IF can.raised
            THEN [xml |-> xml, raised |-> TRUE,
                  events |-> Append(checked, Did("raise", option))]
            ELSE IF ~can.ret
            THEN RuleApplyLoop(rule, Tail(options), xml, value, checked)
            ELSE LET r == Option_apply(rule, option, xml, value)
                     applied == Append(checked, Did("apply", option))
                 IN IF r.raised
                    THEN [xml |-> r.xml, raised |-> TRUE,
                          events |-> Append(applied, Did("raise", option))]
                    ELSE RuleApplyLoop(rule, Tail(options), r.xml, value, applied)

RECURSIVE RuleApplyFirst(_, _, _, _, _)
RuleApplyFirst(rule, options, xml, value, events) ==
    IF options = <<>> THEN [xml |-> xml, raised |-> FALSE, events |-> events]
    ELSE LET option == Head(options)
             can == Option_can_apply(rule, option, value)
             checked == Append(events, Did("can_apply", option))
         IN IF can.raised
            THEN [xml |-> xml, raised |-> TRUE,
                  events |-> Append(checked, Did("raise", option))]
            ELSE IF ~can.ret
            THEN RuleApplyFirst(rule, Tail(options), xml, value, checked)
            ELSE LET r == Option_apply(rule, option, xml, value)
                     applied == Append(checked, Did("apply", option))
                 IN [xml |-> r.xml, raised |-> r.raised,
                     events |-> IF r.raised THEN Append(applied, Did("raise", option))
                                ELSE applied]

\* Rule.apply, were it to stop at the first option it applies (a break)
Rule_apply_first_match(rule, xml, value) ==
    RuleApplyFirst(rule, get_options(rule), xml, value, <<>>)

\* Rule.apply, were it to catch what its options raise
Rule_apply_swallow(rule, xml, value) ==
    [RuleApplyLoop(rule, get_options(rule), xml, value, <<>>) EXCEPT !.raised = FALSE]

\* Rule.apply(xml, value)
Rule_apply(rule, xml, value) ==
    RuleApplyLoop(rule, get_options(rule), xml, value, <<>>)

\* ------------------------------------------------------------ the sheet

\* cell.value: a str, an int, or None (an empty cell)
StrCell(s) == [t |-> "str", s |-> s, n |-> 0]
IntCell(n) == [t |-> "int", s |-> <<>>, n |-> n]
EmptyCell == [t |-> "None", s |-> <<>>, n |-> 0]

\* str(cell.value)
CellStr(cell) ==
    CASE cell.t = "str" -> cell.s
      [] cell.t = "int" -> StrOfInt(cell.n)
      [] OTHER -> <<"N","o","n","e">>

\* cell.value == str(row_id): a str equals only an equal str
CellEqStr(cell, s) == cell.t = "str" /\ cell.s = s

RECURSIVE ForRow(_, _, _)
\* `row` after  for row in sheet.rows: if row[0].value == str(row_id): break
\* (row is what it was before the loop when there is no row to bind)
ForRow(rows, id, row) ==
    IF rows = <<>> THEN row
    ELSE IF CellEqStr(Head(rows)[1], StrOfInt(id)) THEN Head(rows)
    ELSE ForRow(Tail(rows), id, Head(rows))

\* zip(first_row, row) as (str(title.value), str(cell.value)) pairs
ZipColumns(first_row, row) ==
    [i \in 1..(IF Len(first_row) < Len(row) THEN Len(first_row) ELSE Len(row)) |->
        <<CellStr(first_row[i]), CellStr(row[i])>>]

\* get_excel_columns: where the script goes next, and the pairs it returns.
\* next(sheet.rows) raises StopIteration on a sheet without rows.
get_excel_columns(rows, id) ==
    IF rows = <<>> THEN [pc |-> "raised", columns |-> <<>>]
    ELSE LET row == ForRow(rows, id, <<>>)
         IN IF row = <<>> THEN [pc |-> "exit3", columns |-> <<>>]
            ELSE [pc |-> "parse", columns |-> ZipColumns(rows[1], row)]

\* --------------------------------------------------------------- inputs

\* "ID"
TitleId == <<"I","D">>
\* "¿Cuáles de Estos Protocolos utiliza?"
TitleProtocols == <<"¿","C","u","á","l","e","s"," ","d","e"," ","E","s","t","o","s"," ","P","r","o","t","o","c","o","l","o","s"," ","u","t","i","l","i","z","a","?">>
\* "Va a realizar teletrabajo"
TitleTeleworking == <<"V","a"," ","a"," ","r","e","a","l","i","z","a","r"," ","t","e","l","e","t","r","a","b","a","j","o">>
\* "Sitios ociosos"
TitleBadTraffic == <<"S","i","t","i","o","s"," ","o","c","i","o","s","o","s">>
\* "Correo ElectrÓnico"
TitleAdminEmail == <<"C","o","r","r","e","o"," ","E","l","e","c","t","r","Ó","n","i","c","o">>
\* "IP del ruter de salida o gateway"
TitleNetwork == <<"I","P"," ","d","e","l"," ","r","u","t","e","r"," ","d","e"," ","s","a","l","i","d","a"," ","o"," ","g","a","t","e","w","a","y">>
\* "estos protocolos utiliza al realizar teletrabajo"
TitleTwoRules == <<"e","s","t","o","s"," ","p","r","o","t","o","c","o","l","o","s"," ","u","t","i","l","i","z","a"," ","a","l"," ","r","e","a","l","i","z","a","r"," ","t","e","l","e","t","r","a","b","a","j","o">>
\* "ID (correo electrónico)"
TitleIdEmail == <<"I","D"," ","(","c","o","r","r","e","o"," ","e","l","e","c","t","r","ó","n","i","c","o",")">>
\* "Marca temporal"
TitleOther == <<"M","a","r","c","a"," ","t","e","m","p","o","r","a","l">>
\* "Usa FTP y SMB"
UsaFTPySMB == <<"U","s","a"," ","F","T","P"," ","y"," ","S","M","B">>
\* "ssh"
ValueSsh == <<"s","s","h">>
\* "No"
ValueNo == <<"N","o">>
\* "Sí"
ValueSi == <<"S","í">>
\* "ftp, no ssh"
ValueFtpNo == <<"f","t","p",","," ","n","o"," ","s","s","h">>
\* "No quiero bloquear"
ValueNoBloquear == <<"N","o"," ","q","u","i","e","r","o"," ","b","l","o","q","u","e","a","r">>
\* "a@b.es"
ValueEmail == <<"a","@","b",".","e","s">>
\* ""
ValueEmpty == <<>>
\* "192.168.100.50/24"
Net100Host == <<"1","9","2",".","1","6","8",".","1","0","0",".","5","0","/","2","4">>
\* "10.10.10.0/24"
Net10 == <<"1","0",".","1","0",".","1","0",".","0","/","2","4">>
\* "not-an-ip"
NotAnIp == <<"n","o","t","-","a","n","-","i","p">>
\* "192.168.100.7"
Net100Bare == <<"1","9","2",".","1","6","8",".","1","0","0",".","7">>
\* "0.0.0.0/0"
NetAll == <<"0",".","0",".","0",".","0","/","0">>
\* "192.168.0.0/16"
Net16 == <<"1","9","2",".","1","6","8",".","0",".","0","/","1","6">>
\* "192.168.101.0/23"
Net101Slash23 == <<"1","9","2",".","1","6","8",".","1","0","1",".","0","/","2","3">>
\* "192.168.102.0/23"
Net102Slash23 == <<"1","9","2",".","1","6","8",".","1","0","2",".","0","/","2","3">>
\* "192.168.100.9/0.0.0.255"
Net100Hostmask == <<"1","9","2",".","1","6","8",".","1","0","0",".","9","/","0",".","0",".","0",".","2","5","5">>
\* "192.168.99.0/255.255.255.0"
Net99Netmask == <<"1","9","2",".","1","6","8",".","9","9",".","0","/","2","5","5",".","2","5","5",".","2","5","5",".","0">>
\* "192.168.100.0/33"
NetPrefix33 == <<"1","9","2",".","1","6","8",".","1","0","0",".","0","/","3","3">>
\* "256.168.100.0/24"
NetOctet256 == <<"2","5","6",".","1","6","8",".","1","0","0",".","0","/","2","4">>
\* "192.168.100.0/24/24"
NetTwoSlashes == <<"1","9","2",".","1","6","8",".","1","0","0",".","0","/","2","4","/","2","4">>
\* "192.168.100.01/24"
NetLeadingZero == <<"1","9","2",".","1","6","8",".","1","0","0",".","0","1","/","2","4">>
\* "192.168.100.0/255.0.255.0"
NetBadMask == <<"1","9","2",".","1","6","8",".","1","0","0",".","0","/","2","5","5",".","0",".","2","5","5",".","0">>
\* "192.168.100/24"
NetThreeOctets == <<"1","9","2",".","1","6","8",".","1","0","0","/","2","4">>
\* "on"
TextOn == <<"o","n">>
\* "blk"
TextBlk == <<"b","l","k">>
\* "root"
TextRoot == <<"r","o","o","t">>
\* "reject"
TextReject == <<"r","e","j","e","c","t">>
\* "192.168.1.1"
TextLan == <<"1","9","2",".","1","6","8",".","1",".","1">>

\* The header row and the answer rows of the survey's sheets
SheetProtocols ==
    << <<StrCell(TitleId), StrCell(TitleProtocols), StrCell(TitleTeleworking), StrCell(TitleAdminEmail)>>,
       <<StrCell(StrOfInt(1)), StrCell(UsaFTPySMB), StrCell(ValueNo), StrCell(ValueEmail)>>,
       <<StrCell(StrOfInt(2)), StrCell(ValueSsh), StrCell(ValueSi), EmptyCell>> >>

SheetNetwork ==
    << <<StrCell(TitleId), StrCell(TitleBadTraffic), StrCell(TitleNetwork)>>,
       <<StrCell(StrOfInt(1)), StrCell(ValueNoBloquear), StrCell(Net100Host)>>,
       <<StrCell(StrOfInt(2)), StrCell(NotAnIp), StrCell(NotAnIp)>>,
       <<StrCell(StrOfInt(3)), StrCell(ValueSi), StrCell(Net10)>> >>

SheetTwoRules ==
    << <<StrCell(TitleId), StrCell(TitleTwoRules)>>,
       <<StrCell(StrOfInt(1)), StrCell(ValueFtpNo)>>,
       <<StrCell(StrOfInt(2)), StrCell(ValueNo)>> >>

SheetIntIds ==
    << <<StrCell(TitleId), StrCell(TitleOther), StrCell(TitleTeleworking)>>,
       <<IntCell(1), StrCell(ValueEmpty), StrCell(ValueNo)>>,
       <<IntCell(2), EmptyCell, StrCell(ValueSi)>> >>

SheetIdEmail ==
    << <<StrCell(TitleIdEmail), StrCell(TitleProtocols)>>,
       <<StrCell(StrOfInt(1)), StrCell(ValueSsh)>> >>

SheetHeaderOnly ==
    << <<StrCell(TitleId), StrCell(TitleAdminEmail)>> >>

SheetEmpty == <<>>

Sheets == {SheetProtocols, SheetNetwork, SheetTwoRules, SheetIntIds,
           SheetIdEmail, SheetHeaderOnly, SheetEmpty}

\* The largest row ID asked for
MaxRowId == 3

\* The largest number of blacklist items of a baseline
MaxItems == 2

\* The selected children of the i-th blacklist item: one, two, none, one, ...
ItemSelected(i) == [j \in 1..(i % 3) |-> TextOn]

FilterRule(tracker, type) == [trackers |-> <<tracker>>, types |-> <<type>>]

\* A baseline with every node the catalog names, each once, and n items
BaseDoc(n) ==
    [rules |-> << FilterRule("1629481790", Block), FilterRule("1629485503", Block),
                  FilterRule("1629485258", Block), FilterRule("1629485518", TextReject),
                  FilterRule("1629479843", Block), FilterRule("1629479704", Block),
                  FilterRule("1614115961", Pass), FilterRule("1000000103", Pass) >>,
     dest |-> <<TextBlk>>,
     items |-> [i \in 1..n |-> ItemSelected(i)],
     admin_email |-> <<TextRoot>>,
     ipaddr |-> <<TextLan>>]

\* s without its i-th element
Without(s, i) == SubSeq(s, 1, i - 1) \o SubSeq(s, i + 1, Len(s))

\* Baselines that do not match the catalog: a node missing, a node twice
DropRule(d, i) == [d EXCEPT !.rules = Without(@, i)]
DropType(d, i) == [d EXCEPT !.rules[i].types = <<>>]
TwoTypes(d, i) == [d EXCEPT !.rules[i].types = @ \o <<TextReject>>]
DupRule(d, i) == [d EXCEPT !.rules = @ \o <<[@[i] EXCEPT !.types = <<TextReject>>]>>]

\* A baseline whose first rule carries two trackers: FTP's (WAN) and OpenVPN's
AliasDoc == [BaseDoc(1) EXCEPT !.rules[1].trackers = <<"1629481790", "1614115961">>]

MismatchedDocs ==
    { DropRule(BaseDoc(1), 1), DropRule(BaseDoc(1), 2), DropRule(BaseDoc(1), 7),
      DropType(BaseDoc(1), 3), TwoTypes(BaseDoc(1), 5), DupRule(BaseDoc(1), 1),
      DupRule(DropType(BaseDoc(1), 7), 7),
      [BaseDoc(2) EXCEPT !.dest = <<>>], [BaseDoc(1) EXCEPT !.dest = <<TextBlk, TextBlk>>],
      [BaseDoc(1) EXCEPT !.admin_email = <<>>], [BaseDoc(1) EXCEPT !.ipaddr = <<>>],
      [BaseDoc(1) EXCEPT !.ipaddr = <<TextLan, TextLan>>] }

Docs == {BaseDoc(n) : n \in 0..MaxItems} \cup MismatchedDocs \cup {AliasDoc}

\* Every order of the registry
Registries ==
    { [i \in 1..Len(RULES) |-> RULES[p[i]]] :
        p \in {q \in [1..Len(RULES) -> 1..Len(RULES)] :
                 \A i, j \in 1..Len(RULES) : i # j => q[i] # q[j]} }

\* ----------------------------------------------------------- the script

VARIABLES
    sheet,      \* the rows of the workbook's active sheet
    row_id,     \* int(sys.argv[4])
    baseline,   \* the base configuration file: <<>> when it cannot be opened, else <<document>>
    registry,   \* RULES
    pc,         \* where the script is
    columns,    \* the (title, value) pairs get_excel_columns returned
    ci,         \* the pair the loop is at
    ri,         \* the rule the loop is at
    doc,        \* xml_root
    output,     \* the output file: <<>> until written, then <<document>>
    trace,      \* every can_apply evaluated and every apply called, in order
    unit        \* the call under test (the second specification)

vars == <<sheet, row_id, baseline, registry, pc, columns, ci, ri, doc, output, trace, unit>>

EmptyDoc == [rules |-> <<>>, dest |-> <<>>, items |-> <<>>, admin_email |-> <<>>, ipaddr |-> <<>>]

NoUnit == [op |-> "none", rule |-> "", option |-> "", xpath |-> Path(""), value |-> <<>>,
           before |-> EmptyDoc, once |-> EmptyDoc, ret |-> FALSE, raised |-> FALSE, n |-> 0]

Event(ev, col, rule, option) == [ev |-> ev, col |-> col, rule |-> rule, option |-> option]

InitWith(sheets, files, registries) ==
    /\ sheet \in sheets
    /\ row_id \in 0..MaxRowId
    /\ baseline \in files
    /\ registry \in registries
    /\ pc = "get_excel_columns"
    /\ columns = <<>>
    /\ ci = 1
    /\ ri = 1
    /\ doc = EmptyDoc
    /\ output = <<>>
    /\ trace = <<>>
    /\ unit = NoUnit

\* The base configuration file: one of the documents, or none that can be opened
Files == {<<d>> : d \in Docs} \cup {<<>>}

Init == InitWith(Sheets, Files, {RULES})

\* columns = get_excel_columns(input_xlsx_file, row_id)
GetExcelColumns ==
    /\ pc = "get_excel_columns"
    /\ pc' = get_excel_columns(sheet, row_id).pc
    /\ columns' = get_excel_columns(sheet, row_id).columns
    /\ UNCHANGED <<sheet, row_id, baseline, registry, ci, ri, doc, output, trace, unit>>

\* xml_tree = ElementTree.parse(input_xml_file), exit(4) on OSError
ParseBase ==
    /\ pc = "parse"
    /\ pc' = IF baseline = <<>> THEN "exit4" ELSE "rules"
    /\ doc' = IF baseline = <<>> THEN doc ELSE baseline[1]
    /\ UNCHANGED <<sheet, row_id, baseline, registry, columns, ci, ri, output, trace, unit>>

\* One turn of the inner loop: for the pair at ci and the rule at ri,
\*   if rule.can_apply(title): rule.apply(xml_root, value)
\* An exception leaves the loops and the script.
ApplyRule ==
    /\ pc = "rules"
    /\ ci <= Len(columns)
    /\ LET title == columns[ci][1]
           value == columns[ci][2]
           rule == registry[ri]
           r == IF Rule_can_apply(rule, title) THEN Rule_apply(rule, doc, value)
                ELSE [xml |-> doc, raised |-> FALSE, events |-> <<>>]
       IN /\ doc' = r.xml
          /\ trace' = Append(trace, Event("Rule.can_apply", ci, rule, ""))
                        \o [k \in 1..Len(r.events) |->
                              Event(r.events[k].ev, ci, rule, r.events[k].option)]
          /\ pc' = IF r.raised THEN "raised" ELSE "rules"
          /\ ri' = IF r.raised THEN ri ELSE IF ri < Len(registry) THEN ri + 1 ELSE 1
          /\ ci' = IF r.raised \/ ri < Len(registry) THEN ci ELSE ci + 1
    /\ UNCHANGED <<sheet, row_id, baseline, registry, columns, output, unit>>

\* xml_tree.write(output_file), after the loops
WriteOutput ==
    /\ pc = "rules"
    /\ ci > Len(columns)
    /\ output' = <<doc>>
    /\ pc' = "done"
    /\ UNCHANGED <<sheet, row_id, baseline, registry, columns, ci, ri, doc, trace, unit>>

Next == GetExcelColumns \/ ParseBase \/ ApplyRule \/ WriteOutput

Spec == Init /\ [][Next]_vars

\* The script with the registry in any order, on the sheets and baselines
\* where the order could show
OrderSheets == {SheetTwoRules, SheetNetwork}
OrderDocs == {BaseDoc(1), AliasDoc, DropRule(BaseDoc(1), 2)}

InitOrder == InitWith(OrderSheets, {<<d>> : d \in OrderDocs}, Registries)

SpecOrder == InitOrder /\ [][Next]_vars

\* ------------------------------------------------------- calls under test

\* The values a call under test is given
Values == {UsaFTPySMB, ValueSsh, ValueNo, ValueSi, ValueFtpNo, ValueNoBloquear,
           ValueEmail, ValueEmpty, Net100Host, Net10, NotAnIp, Net100Bare, NetAll,
           Net16, Net101Slash23, Net102Slash23, Net100Hostmask, Net99Netmask,
           NetPrefix33, NetOctet256, NetTwoSlashes, NetLeadingZero, NetBadMask,
           NetThreeOctets}

\* Every option of the catalog, with its rule
Options ==
    {ro \in {RULES[r] : r \in 1..Len(RULES)} \X {"OptionFTP", "OptionSMB", "OptionSSH", "OptionNo", "Option"} :
       \E o \in 1..Len(get_options(ro[1])) : get_options(ro[1])[o] = ro[2]}

\* The trackers update_rule_type is tried with: the catalog's, and one no rule has
Trackers == {"1629481790", "1629485503", "1629485258", "1629479843", "1614115961", "1629400000"}

\* The plain paths update_node_value is tried with: those the options pass it
Paths == {XPathDest, XPathAdminEmail, XPathIpaddr}

\* How many times in a row a call under test is made
MaxApply == 2

InitUnit ==
    /\ sheet = <<>>
    /\ row_id = 0
    /\ doc \in Docs
    /\ baseline = <<doc>>
    /\ registry = RULES
    /\ pc = "unit"
    /\ columns = <<>>
    /\ ci = 1
    /\ ri = 1
    /\ output = <<>>
    /\ trace = <<>>
    /\ unit = NoUnit

unitFrame == <<sheet, row_id, baseline, registry, pc, columns, ci, ri, output, trace>>

\* option.can_apply(value)
UnitCanApply ==
    /\ pc = "unit"
    /\ unit.op = "none"
    /\ \E ro \in Options, value \in Values :
         unit' = [NoUnit EXCEPT !.op = "can_apply", !.rule = ro[1], !.option = ro[2],
                    !.value = value, !.before = doc, !.once = doc,
                    !.ret = Option_can_apply(ro[1], ro[2], value).ret,
                    !.raised = Option_can_apply(ro[1], ro[2], value).raised]
    /\ UNCHANGED doc
    /\ UNCHANGED unitFrame

\* option.apply(xml, value), for a value that passed can_apply; again after it returned
UnitOptionApply ==
    /\ pc = "unit"
    /\ unit.op \in {"can_apply", "Option.apply"}
    /\ unit.ret
    /\ ~unit.raised
    /\ unit.n < MaxApply
    /\ LET r == Option_apply(unit.rule, unit.option, doc, unit.value)
       IN /\ doc' = r.xml
          /\ unit' = [unit EXCEPT !.op = "Option.apply", !.n = @ + 1, !.raised = r.raised,
                        !.once = IF unit.n = 0 THEN r.xml ELSE @]
    /\ UNCHANGED unitFrame

\* rule.apply(xml, value)
UnitRuleApply ==
    /\ pc = "unit"
    /\ unit.op = "none"
    /\ \E r \in 1..Len(RULES), value \in Values :
         LET res == Rule_apply(RULES[r], doc, value)
         IN /\ doc' = res.xml
            /\ unit' = [NoUnit EXCEPT !.op = "Rule.apply", !.rule = RULES[r], !.value = value,
                          !.before = doc, !.once = res.xml, !.raised = res.raised, !.n = 1]
    /\ UNCHANGED unitFrame

\* rule.apply(xml, value) again, with the same value, after it returned
UnitRuleApplyAgain ==
    /\ pc = "unit"
    /\ unit.op = "Rule.apply"
    /\ ~unit.raised
    /\ unit.n < MaxApply
    /\ LET res == Rule_apply(unit.rule, doc, unit.value)
       IN /\ doc' = res.xml
          /\ unit' = [unit EXCEPT !.raised = res.raised, !.n = @ + 1]
    /\ UNCHANGED unitFrame

\* update_node_value(xml, xpath, value)
UnitUpdateNodeValue ==
    /\ pc = "unit"
    /\ unit.op = "none"
    /\ \E p \in Paths, value \in {Pass, ValueEmail} :
         LET r == update_node_value(doc, Path(p), value)
         IN /\ doc' = r.xml
            /\ unit' = [NoUnit EXCEPT !.op = "update_node_value", !.xpath = Path(p),
                          !.value = value, !.before = doc, !.once = r.xml,
                          !.raised = r.raised, !.n = 1]
    /\ UNCHANGED unitFrame

\* update_rule_type(xml, tracker, new_type)
UnitUpdateRuleType ==
    /\ pc = "unit"
    /\ unit.op = "none"
    /\ \E tracker \in Trackers, new_type \in {Pass, Block} :
         LET r == update_rule_type(doc, tracker, new_type)
         IN /\ doc' = r.xml
            /\ unit' = [NoUnit EXCEPT !.op = "update_rule_type", !.xpath = RuleTypeOf(tracker),
                          !.value = new_type, !.before = doc, !.once = r.xml,
                          !.raised = r.raised, !.n = 1]
    /\ UNCHANGED unitFrame

NextUnit ==
    \/ UnitCanApply
    \/ UnitOptionApply
    \/ UnitRuleApply
    \/ UnitRuleApplyAgain
    \/ UnitUpdateNodeValue
    \/ UnitUpdateRuleType

SpecUnit == InitUnit /\ [][NextUnit]_vars

\* --------------------------------------------------------------- claims

IsApply(e) == e.ev = "apply"
IsRaise(e) == e.ev = "raise"

\* The Option.apply calls of a trace, in order
ApplyCalls(tr) == SelectSeq(tr, IsApply)

\* The option's predicate returns true for the value
Holds(rule, option, value) ==
    LET can == Option_can_apply(rule, option, value) IN ~can.raised /\ can.ret

\* The calls the dispatch is to make: pairs in input order, rules in registry
\* order, options in get_options() order, each where its predicate holds
ExpectedCalls(cols, reg) ==
    Flatten([c \in 1..Len(cols) |->
      Flatten([r \in 1..Len(reg) |->
        IF ~Rule_can_apply(reg[r], cols[c][1]) THEN <<>>
        ELSE Flatten([o \in 1..Len(get_options(reg[r])) |->
               IF Holds(reg[r], get_options(reg[r])[o], cols[c][2])
               THEN <<Event("apply", c, reg[r], get_options(reg[r])[o])>>
               ELSE <<>>])])])

IsPrefix(s, t) == Len(s) <= Len(t) /\ SubSeq(t, 1, Len(s)) = s

RECURSIVE DocAfter(_, _, _)
\* The document after the Option.apply calls of `calls`, made in order on xml
DocAfter(calls, cols, xml) ==
    IF calls = <<>> THEN xml
    ELSE DocAfter(Tail(calls), cols,
                  Option_apply(Head(calls).rule, Head(calls).option, xml,
                               cols[Head(calls).col][2]).xml)

\* C1: in every order of the registry, the Option.apply calls made so far are
\* the first ones of the expected sequence (pairs in input order, matching
\* rules in registry order, matching options in get_options() order), a run
\* that reaches the write has made exactly that sequence, and the document is
\* the baseline changed by those calls and by nothing else: a rule none of
\* whose options matches changes nothing.
C1_DispatchOrder ==
    /\ IsPrefix(ApplyCalls(trace), ExpectedCalls(columns, registry))
    /\ pc = "done" => ApplyCalls(trace) = ExpectedCalls(columns, registry)
    /\ pc \in {"rules", "done"} => doc = DocAfter(ApplyCalls(trace), columns, baseline[1])
    /\ (pc = "raised" /\ sheet # <<>>) => doc = DocAfter(ApplyCalls(trace), columns, baseline[1])

\* A finished run, registry not in the source's order, in which one pair was
\* given to two rules and one rule applied two options
C1_Witness ==
    /\ pc = "done"
    /\ registry # RULES
    /\ \E i, j \in 1..Len(trace) :
         /\ i < j
         /\ IsApply(trace[i]) /\ IsApply(trace[j])
         /\ trace[i].col = trace[j].col
         /\ trace[i].rule # trace[j].rule
    /\ \E i, j \in 1..Len(trace) :
         /\ i < j
         /\ IsApply(trace[i]) /\ IsApply(trace[j])
         /\ trace[i].col = trace[j].col
         /\ trace[i].rule = trace[j].rule

\* C2: once a can_apply or an apply has raised, it is the last thing the run
\* did, the script has ended with the exception, and nothing was written.
C2_AbortOnRaise ==
    (\E k \in 1..Len(trace) : IsRaise(trace[k])) =>
        /\ IsRaise(trace[Len(trace)])
        /\ \A k \in 1..(Len(trace) - 1) : ~IsRaise(trace[k])
        /\ pc = "raised"
        /\ output = <<>>
        /\ ~ENABLED Next

\* OptionFTP set the WAN rule's type, raised on the missing LAN rule, and the
\* mutated document was not written
C2_Witness ==
    /\ pc = "raised"
    /\ baseline = <<DropRule(BaseDoc(1), 2)>>
    /\ trace # <<>>
    /\ trace[Len(trace)] = Event("raise", 2, "ProtocolsRule", "OptionFTP")
    /\ doc.rules[1].types[1] = Pass
    /\ doc # baseline[1]
    /\ output = <<>>

\* The sheet has a header row and no answer row whose column 0 holds the ID
RowAbsent ==
    /\ sheet # <<>>
    /\ \A i \in 2..Len(sheet) :
         /\ ~(sheet[i][1].t = "str" /\ sheet[i][1].s = StrOfInt(row_id))
         /\ ~(sheet[i][1].t = "int" /\ sheet[i][1].n = row_id)

\* C5: when the row ID is in no answer row, the script ends with exit code 3
\* at get_excel_columns: no pair is dispatched and nothing is written.
C5_UnknownRowExits ==
    RowAbsent =>
        /\ pc \in {"get_excel_columns", "exit3"}
        /\ columns = <<>>
        /\ trace = <<>>
        /\ output = <<>>

\* C7: no rule's title predicate is evaluated on column 0 of the row, and no
\* option is tried on or applied with its value.
C7_Column0NotConsumed == \A k \in 1..Len(trace) : trace[k].col # 1

\* The loops over the pairs from c and the rules from r, as one result
RECURSIVE RunFrom(_, _, _, _, _)
RunFrom(cols, reg, c, r, xml) ==
    IF c > Len(cols) THEN Returned(xml)
    ELSE IF r > Len(reg) THEN RunFrom(cols, reg, c + 1, 1, xml)
    ELSE IF ~Rule_can_apply(reg[r], cols[c][1]) THEN RunFrom(cols, reg, c, r + 1, xml)
    ELSE LET res == Rule_apply(reg[r], xml, cols[c][2])
         IN IF res.raised THEN Raised(res.xml)
            ELSE RunFrom(cols, reg, c, r + 1, res.xml)

\* The run with the registry in the source's order ends without error and
\* with the document this run wrote
SameAsSourceOrder ==
    /\ ~RunFrom(columns, RULES, 1, 1, baseline[1]).raised
    /\ output = <<RunFrom(columns, RULES, 1, 1, baseline[1]).xml>>

\* The trackers each rule's options locate their nodes by
ProtocolsTrackers == {"1629481790", "1629485503", "1629485258", "1629485518",
                      "1629479843", "1629479704"}
TeleworkingTrackers == {"1614115961"}

\* No filter rule of the document carries trackers of two Rules
NoSharedRule(d) ==
    \A i \in 1..Len(d.rules) :
        ~(/\ \E t \in 1..Len(d.rules[i].trackers) : d.rules[i].trackers[t] \in ProtocolsTrackers
          /\ \E t \in 1..Len(d.rules[i].trackers) : d.rules[i].trackers[t] \in TeleworkingTrackers)

\* C10, as claimed: a run that completes, in whatever order of the registry,
\* writes the document the source's order writes.
C10_OrderIrrelevant == pc = "done" => SameAsSourceOrder

\* C10, amended: a run that completes, in whatever order of the registry,
\* writes the document the source's order writes, provided no filter rule of
\* the baseline carries the trackers of two different Rules.
C10_OrderIrrelevantUnlessShared ==
    (pc = "done" /\ NoSharedRule(baseline[1])) => SameAsSourceOrder

\* A finished run with the registry reversed, on a title two rules match,
\* where both rules changed the document
C10_Witness ==
    /\ pc = "done"
    /\ registry = [i \in 1..Len(RULES) |-> RULES[Len(RULES) + 1 - i]]
    /\ baseline = <<BaseDoc(1)>>
    /\ columns[2] = <<TitleTwoRules, ValueFtpNo>>
    /\ output[1].rules[1].types[1] = Pass
    /\ output[1].rules[7].types[1] = Block

\* The values of Values that ipaddress accepts, with the address and the
\* prefix length each one states
NetworkSamples ==
    { [value |-> Net100Host, addr |-> <<192, 168, 100, 50>>, prefix |-> 24],
      [value |-> Net10, addr |-> <<10, 10, 10, 0>>, prefix |-> 24],
      [value |-> Net100Bare, addr |-> <<192, 168, 100, 7>>, prefix |-> 32],
      [value |-> NetAll, addr |-> <<0, 0, 0, 0>>, prefix |-> 0],
      [value |-> Net16, addr |-> <<192, 168, 0, 0>>, prefix |-> 16],
      [value |-> Net101Slash23, addr |-> <<192, 168, 101, 0>>, prefix |-> 23],
      [value |-> Net102Slash23, addr |-> <<192, 168, 102, 0>>, prefix |-> 23],
      [value |-> Net100Hostmask, addr |-> <<192, 168, 100, 9>>, prefix |-> 24],
      [value |-> Net99Netmask, addr |-> <<192, 168, 99, 0>>, prefix |-> 24] }

IsNetworkValue(v) == \E s \in NetworkSamples : s.value = v

\* Bit b (1..32, from the left) of an address
BitOf(addr, b) == (addr[((b - 1) \div 8) + 1] \div Pow2(7 - ((b - 1) % 8))) % 2

\* The sample's network overlaps 192.168.100.0/24: the two agree on every
\* bit both prefixes cover
OverlapsReference(s) ==
    \A b \in 1..(IF s.prefix < 24 THEN s.prefix ELSE 24) :
        BitOf(s.addr, b) = BitOf(<<192, 168, 100, 0>>, b)

SampleOf(v) == CHOOSE s \in NetworkSamples : s.value = v

\* C3: NetworkRule's option predicate raises for a value that is no IPv4
\* network or address and returns for one that is, true exactly when the
\* network overlaps 192.168.100.0/24; NetworkRule.apply then rewrites the LAN
\* address node on an overlap, leaves the document alone without one, and
\* raises, the document untouched, on a value that is no network.
C3_NetworkFailsClosed ==
    /\ (unit.op = "can_apply" /\ unit.rule = "NetworkRule") =>
          IF IsNetworkValue(unit.value)
          THEN ~unit.raised /\ (unit.ret <=> OverlapsReference(SampleOf(unit.value)))
          ELSE unit.raised /\ ~unit.ret
    /\ (unit.op = "Rule.apply" /\ unit.rule = "NetworkRule" /\ unit.n = 1) =>
          IF ~IsNetworkValue(unit.value) THEN unit.raised /\ doc = unit.before
          ELSE IF ~OverlapsReference(SampleOf(unit.value)) THEN ~unit.raised /\ doc = unit.before
          ELSE IF unit.before.ipaddr = <<>> THEN unit.raised /\ doc = unit.before
          ELSE /\ ~unit.raised
               /\ doc = [unit.before EXCEPT !.ipaddr[1] = LanAddress]

\* The predicate raised on "not-an-ip"
C3_Witness ==
    /\ unit.op = "can_apply"
    /\ unit.rule = "NetworkRule"
    /\ unit.value = NotAnIp
    /\ unit.raised
    /\ ~unit.ret

\* Every node of a document
AllNodes(d) ==
    {Node("type", i, j) : i \in 1..Len(d.rules), j \in 1..2} \cup
    {Node("selected", i, j) : i \in 1..Len(d.items), j \in 1..2} \cup
    {Node("dest", i, 0) : i \in 1..Len(d.dest)} \cup
    {Node("admin_email", i, 0) : i \in 1..Len(d.admin_email)} \cup
    {Node("ipaddr", i, 0) : i \in 1..Len(d.ipaddr)}

Exists(d, node) ==
    CASE node.k = "type" -> node.i <= Len(d.rules) /\ node.j <= Len(d.rules[node.i].types)
      [] node.k = "selected" -> node.i <= Len(d.items) /\ node.j <= Len(d.items[node.i])
      [] node.k = "dest" -> node.i <= Len(d.dest)
      [] node.k = "admin_email" -> node.i <= Len(d.admin_email)
      [] node.k = "ipaddr" -> node.i <= Len(d.ipaddr)
      [] OTHER -> FALSE

\* The two documents have the same nodes: they differ in text at most
SameNodes(a, b) ==
    /\ Len(a.rules) = Len(b.rules)
    /\ \A i \in 1..Len(a.rules) :
         /\ a.rules[i].trackers = b.rules[i].trackers
         /\ Len(a.rules[i].types) = Len(b.rules[i].types)
    /\ Len(a.items) = Len(b.items)
    /\ \A i \in 1..Len(a.items) : Len(a.items[i]) = Len(b.items[i])
    /\ Len(a.dest) = Len(b.dest)
    /\ Len(a.admin_email) = Len(b.admin_email)
    /\ Len(a.ipaddr) = Len(b.ipaddr)

\* The documents have the same nodes, with the same text outside `nodes`
SameOutside(a, b, nodes) ==
    /\ SameNodes(a, b)
    /\ \A nd \in AllNodes(a) \ nodes : Exists(a, nd) => Text(a, nd) = Text(b, nd)

\* The protocols, each with the trackers of its WAN and LAN filter rules
Protocols ==
    { [name |-> <<"f","t","p">>, wan |-> "1629481790", lan |-> "1629485503"],
      [name |-> <<"s","m","b">>, wan |-> "1629485258", lan |-> "1629485518"],
      [name |-> <<"s","s","h">>, wan |-> "1629479843", lan |-> "1629479704"] }

\* The protocols whose name occurs in the value, whatever the case
NamedIn(value) ==
    {p \in Protocols :
        \E k \in 0..(Len(value) - 3) :
            \A c \in 1..3 : LowerChar(value[k + c]) = p.name[c]}

\* The type nodes of the WAN and LAN rules of the protocols
TypeNodes(d, protocols) ==
    {find(d, RuleTypeOf(p.wan)) : p \in protocols} \cup
    {find(d, RuleTypeOf(p.lan)) : p \in protocols}

\* C4: when ProtocolsRule.apply returns, the type of the WAN and of the LAN
\* filter rule of every protocol named in the value is "pass", and every
\* other node of the document is there with the text it had.
C4_ProtocolsFrame ==
    (unit.op = "Rule.apply" /\ unit.rule = "ProtocolsRule" /\ ~unit.raised) =>
        /\ \A nd \in TypeNodes(unit.before, NamedIn(unit.value)) :
              nd # NoNode /\ Text(doc, nd) = Pass
        /\ SameOutside(unit.before, doc, TypeNodes(unit.before, NamedIn(unit.value)))

\* "Usa FTP y SMB" on the full baseline: FTP's and SMB's rules pass, SSH's
\* are as they were
C4_Witness ==
    /\ unit.op = "Rule.apply"
    /\ unit.rule = "ProtocolsRule"
    /\ unit.value = UsaFTPySMB
    /\ unit.n = 1
    /\ ~unit.raised
    /\ unit.before = BaseDoc(1)
    /\ \A i \in 1..4 : doc.rules[i].types = <<Pass>>
    /\ \A i \in 5..6 : doc.rules[i].types = <<Block>>

\* C6: an Option.apply called again with the value it was just called with,
\* and a Rule.apply called again with the same value, leave the document as
\* the first call left it.
C6_Idempotent ==
    (unit.op \in {"Option.apply", "Rule.apply"} /\ unit.n >= 2) =>
        /\ ~unit.raised
        /\ doc = unit.once

\* An option applied twice, whose first application changed the document
C6_Witness ==
    /\ unit.op = "Option.apply"
    /\ unit.n = 2
    /\ unit.once # unit.before
    /\ doc = unit.once

IsUpdate == unit.op \in {"update_node_value", "update_rule_type"}

\* C8, as claimed: a single-node mutation succeeds only when its locator
\* resolves to exactly one node; with none, or more than one, it fails and
\* writes nothing; and it creates no node.
C8_ExactlyOneNode ==
    IsUpdate =>
        /\ SameNodes(unit.before, doc)
        /\ IF Len(findall(unit.before, unit.xpath)) = 1
           THEN ~unit.raised
           ELSE unit.raised /\ doc = unit.before

\* C8, amended: a single-node mutation fails and writes nothing when its
\* locator resolves to no node; otherwise it succeeds and sets the text of
\* the first node the locator resolves to, in document order, and of no
\* other; and it creates no node.
C8_FirstNodeOrFail ==
    IsUpdate =>
        /\ SameNodes(unit.before, doc)
        /\ IF findall(unit.before, unit.xpath) = <<>>
           THEN unit.raised /\ doc = unit.before
           ELSE /\ ~unit.raised
                /\ Text(doc, findall(unit.before, unit.xpath)[1]) = unit.value
                /\ SameOutside(unit.before, doc, {findall(unit.before, unit.xpath)[1]})

\* A mutation whose locator resolved to several nodes, and changed the first
C8_Witness ==
    /\ IsUpdate
    /\ Len(findall(unit.before, unit.xpath)) > 1
    /\ ~unit.raised
    /\ doc # unit.before
    /\ Text(doc, findall(unit.before, unit.xpath)[1]) = unit.value

\* C9: when BlockBadTrafficRule's option returns, the proxy destination node
\* reads "all", every selected node of every blacklist item has no text, and
\* every node of the document is still there, the others with their text.
C9_BlockBadTraffic ==
    (unit.op = "Option.apply" /\ unit.rule = "BlockBadTrafficRule" /\ ~unit.raised) =>
        /\ StrIn(<<"n","o"," ","q","u","i","e","r","o"," ","b","l","o","q","u","e","a","r">>,
                 lower(unit.value))
        /\ doc.dest[1] = All
        /\ \A i \in 1..Len(doc.items) : \A j \in 1..Len(doc.items[i]) : doc.items[i][j] = None
        /\ SameOutside(unit.before, doc,
                       {Node("dest", 1, 0)} \cup {Node("selected", i, j) : i \in 1..Len(doc.items), j \in 1..2})

\* The option applied to a baseline with several items, one with two
\* selected nodes: all of them cleared and still there
C9_Witness ==
    /\ unit.op = "Option.apply"
    /\ unit.rule = "BlockBadTrafficRule"
    /\ unit.n = 1
    /\ ~unit.raised
    /\ Len(unit.before.items) >= 2
    /\ unit.before.items[2] = <<TextOn, TextOn>>
    /\ doc.items[1] = <<None>>
    /\ doc.items[2] = <<None, None>>
    /\ doc.dest = <<All>>

====
